---- MODULE Spec2Model ----
(***************************************************************************)
(* The user controller of the shopiva backend                              *)
(* (src/backend/controller/user.js) as a state machine over the users      *)
(* collection.  A handler that reaches the collection more than once is    *)
(* cut at its awaits where another request can change what it read         *)
(* (create-user, activation); the others are one step each.                *)
(***************************************************************************)
EXTENDS Integers, Sequences, FiniteSets, Bags, TLC

\* ---------------------------------------------------------------- bounds
\* documents constructed by `new User` in one run
MaxIds == 2
\* requests that are between two awaits at the same time
MaxInflight == 2
\* the clock, in minutes
MaxTime == 6
\* subdocument ids handed out for addresses
MaxAddrIds == 2

\* ------------------------------------------------------ program constants
\* expiresIn: "5m"
ExpiresIn == 5

Secret == "ACTIVATION_SECRET"

\* ------------------------------------------------------------ input values
Emails == {"a@x.com", "b@x.com"}
Names == {"A", "B"}
Passwords == {"p", "q"}
\* "" is a payload without the field
Avatars == {"", "img"}
AddressTypes == {"Default", "Home", "Office"}
Cities == {"Pune", "Delhi"}

AdminId == 0
AdminEmail == "admin@x.com"

VARIABLES
    users,      \* the users collection: a set of documents
    nextId,     \* the next _id `new User` generates
    inflight,   \* the bag of requests that are waiting on an await
    mails,      \* activation tokens sent by sendMail
    uploads,    \* number of avatars uploaded to the image host
    sessions,   \* _ids for which sendToken issued a session token
    now,        \* the clock
    resp,       \* the last response sent
    acct,       \* history: per email, how far its registration got
    nextAddrId  \* the next _id of an address subdocument

vars == <<users, nextId, inflight, mails, uploads, sessions, now, resp, acct, nextAddrId>>

\* ------------------------------------------------------- the User model
\* a password as entered
Plain(p) == [plain |-> p, rounds |-> 0]

\* the one-way hash the pre-save hook applies
Hash(pw) == [pw EXCEPT !.rounds = @ + 1]

\* user.comparePassword(entered)
comparePassword(entered, stored) == Hash(Plain(entered)) = stored

\* the pre-save hook: a new or changed password is stored hashed
PreSave(doc) == [doc EXCEPT !.password = Hash(@)]

\* new User({ name, email, password, avatar })
NewUser(id, name, email, password, avatar) ==
    [_id |-> id, name |-> name, email |-> email, password |-> Plain(password),
     phoneNumber |-> "", avatar |-> avatar, addresses |-> <<>>, role |-> "user"]

\* the administrator account the deployment is seeded with
Admin ==
    [_id |-> AdminId, name |-> "root", email |-> AdminEmail,
     password |-> Hash(Plain("root")), phoneNumber |-> "", avatar |-> "",
     addresses |-> <<>>, role |-> "admin"]

\* the documents a query matches
Matches(coll, field, v) == {d \in coll : d[field] = v}

\* the result of a query that found nothing
Null == [_id |-> -1]

\* User.findOne({ field: v }), User.findById(v): the unique indexes leave
\* at most one match
FindOne(coll, field, v) ==
    IF Matches(coll, field, v) = {} THEN Null ELSE CHOOSE d \in Matches(coll, field, v) : TRUE

\* the collection with no unique index on email
DuplicateKey_IdOnly(coll, doc) == Matches(coll, "_id", doc._id) # {}

\* the unique indexes of the collection: _id always, email by the schema
DuplicateKey(coll, doc) ==
    \/ Matches(coll, "_id", doc._id) # {}
    \/ Matches(coll, "email", doc.email) # {}

\* doc.save() of a document that was loaded as old
Save(coll, old, doc) == (coll \ {old}) \cup {doc}

\* ------------------------------------------------------------- responses
\* a response: each one flips seq, so that two equal responses in a row differ
Respond(op, req, status, message) ==
    [seq |-> 1 - resp.seq, op |-> op, req |-> req, status |-> status, message |-> message]

\* a request can be taken while fewer than MaxInflight are waiting
Free == BagCardinality(inflight) < MaxInflight

\* the waiting requests of one handler at one await
Waiting(op, pc) == {r \in BagToSet(inflight) : r.op = op /\ r.pc = pc}

\* a handler stops at an await, and goes on from it
Suspend(r) == inflight (+) SetToBag({r})
Resume(r) == inflight (-) SetToBag({r})

\* isAuthenticated: the session token verifies and its user is found
isAuthenticated(uid) == uid \in sessions /\ FindOne(users, "_id", uid) # Null

\* isAdmin
isAdmin(uid) == FindOne(users, "_id", uid).role = "admin"

\* ------------------------------------------------------------------ Init
Init ==
    /\ users = {Admin}
    /\ nextId = 1
    /\ inflight = EmptyBag
    /\ mails = {}
    /\ uploads = 0
    /\ sessions = {AdminId}
    /\ now = 0
    /\ resp = [seq |-> 0, op |-> "none", req |-> <<>>, status |-> 0, message |-> ""]
    /\ acct = [e \in Emails |-> "none"]
    /\ nextAddrId = 1

\* ----------------------------------------------------------- create-user
\* the existence check skipped
userEmail_Skipped(email) == FALSE

\* lines 17-18: const userEmail = await User.findOne({ email }); if (userEmail)
userEmail(email) == FindOne(users, "email", email) # Null

\* lines 14-41: the existence check, the avatar upload, new User.  The upload
\* touches nothing another request reads, so it shares the step of the check.
CreateUserCheck(name, email, password, avatar) ==
    LET req == [name |-> name, email |-> email, password |-> password, avatar |-> avatar]
    IN /\ Free
       /\ IF userEmail(email)
          THEN /\ resp' = Respond("create-user", req, 400, "User already exists")
               /\ UNCHANGED <<nextId, inflight, uploads>>
          ELSE /\ nextId <= MaxIds
               /\ uploads' = IF avatar # "" THEN uploads + 1 ELSE uploads
               /\ nextId' = nextId + 1
               /\ inflight' = Suspend([op |-> "create-user", pc |-> "save", req |-> req,
                                       user |-> NewUser(nextId, name, email, password, avatar)])
               /\ UNCHANGED resp
       /\ UNCHANGED <<users, mails, sessions, now, acct, nextAddrId>>

\* line 44: await user.save(); a duplicate key ends the request
CreateUserSave(r) ==
    /\ r \in Waiting("create-user", "save")
    /\ IF DuplicateKey(users, r.user)
       THEN /\ resp' = Respond("create-user", r.req, 500, "E11000 duplicate key")
            /\ inflight' = Resume(r)
            /\ UNCHANGED users
       ELSE /\ users' = users \cup {PreSave(r.user)}
            /\ inflight' = Resume(r) (+) SetToBag({[r EXCEPT !.pc = "mail", !.user = PreSave(@)]})
            /\ UNCHANGED resp
    /\ UNCHANGED <<nextId, mails, uploads, sessions, now, acct, nextAddrId>>

\* lines 65-69: jwt.sign({ user }, ACTIVATION_SECRET, { expiresIn: "5m" })
createActivationToken(user) == [user |-> user, exp |-> now + ExpiresIn, key |-> Secret]

\* lines 47-61: the activation token, the mail, the 201
CreateUserMail(r) ==
    /\ r \in Waiting("create-user", "mail")
    /\ mails' = mails \cup {createActivationToken(r.user)}
    /\ resp' = Respond("create-user", r.req, 201, "Please check your email")
    /\ acct' = [acct EXCEPT ![r.req.email] = "pending"]
    /\ inflight' = Resume(r)
    /\ UNCHANGED <<users, nextId, uploads, sessions, now, nextAddrId>>

\* ------------------------------------------------------------ activation
\* jwt.verify with the expiry ignored
jwtVerify_IgnoreExpiration(token) ==
    IF token.key # Secret THEN "invalid signature" ELSE "ok"

\* line 76, jwt.verify: the signature first, then the expiry
jwtVerify(token) ==
    IF token.key # Secret THEN "invalid signature"
    ELSE IF now >= token.exp THEN "jwt expired"
    ELSE "ok"

\* a mailed token whose payload or signature was changed by someone
\* without the secret
Tampered(t) == {[t EXCEPT !.key = "forged"]} \cup
               {[t EXCEPT !.key = "forged", !.user.email = e] : e \in Emails}

PostableTokens == mails \cup UNION {Tampered(t) : t \in mails}

\* lines 84-85: const existingUser = await User.findOne({ email: user.email })
existingUser(user) == FindOne(users, "email", user.email) # Null

\* lines 73-87: verify the token, look the email up
ActivationCheck(token) ==
    /\ Free
    /\ IF jwtVerify(token) # "ok"
       THEN /\ resp' = Respond("activation", token, 500, jwtVerify(token))
            /\ UNCHANGED <<inflight, acct>>
       ELSE IF existingUser(token.user)
       THEN /\ resp' = Respond("activation", token, 400, "User already activated")
            /\ acct' = [acct EXCEPT ![token.user.email] = IF @ = "pending" THEN "failed" ELSE @]
            /\ UNCHANGED inflight
       ELSE /\ inflight' = Suspend([op |-> "activation", pc |-> "create", req |-> token,
                                    user |-> token.user])
            /\ UNCHANGED <<resp, acct>>
    /\ UNCHANGED <<users, nextId, mails, uploads, sessions, now, nextAddrId>>

\* lines 90-93: User.create(user), sendToken(newUser, 201, res).  The payload
\* is the saved document, _id and hashed password included; create runs the
\* pre-save hook on it again.
ActivationCreate(r) ==
    /\ r \in Waiting("activation", "create")
    /\ inflight' = Resume(r)
    /\ IF DuplicateKey(users, r.user)
       THEN /\ resp' = Respond("activation", r.req, 500, "E11000 duplicate key")
            /\ UNCHANGED <<users, sessions, acct>>
       ELSE /\ users' = users \cup {PreSave(r.user)}
            /\ sessions' = sessions \cup {r.user._id}
            /\ resp' = Respond("activation", r.req, 201, "token")
            /\ acct' = [acct EXCEPT ![r.user.email] = "active"]
    /\ UNCHANGED <<nextId, mails, uploads, now, nextAddrId>>

\* ------------------------------------------------------------ login-user
\* an unknown email told apart from a wrong password
UserNotFound_Leaky == [status |-> 404, message |-> "User not found"]

\* line 110: the error for an unknown email
UserNotFound == [status |-> 401, message |-> "Invalid credentials"]

\* line 116: the error for a wrong password
InvalidPassword == [status |-> 401, message |-> "Invalid credentials"]

\* lines 97-121; "" is a missing field
LoginUser(email, password) ==
    LET user == FindOne(users, "email", email)
        req == [email |-> email, password |-> password]
    IN /\ IF email = "" \/ password = ""
          THEN /\ resp' = Respond("login-user", req, 400, "Please provide email and password")
               /\ UNCHANGED sessions
          ELSE IF user = Null
          THEN /\ resp' = Respond("login-user", req, UserNotFound.status, UserNotFound.message)
               /\ UNCHANGED sessions
          ELSE IF ~comparePassword(password, user.password)
          THEN /\ resp' = Respond("login-user", req, InvalidPassword.status, InvalidPassword.message)
               /\ UNCHANGED sessions
          ELSE /\ resp' = Respond("login-user", req, 200, "token")
               /\ sessions' = sessions \cup {user._id}
       /\ UNCHANGED <<users, nextId, inflight, mails, uploads, now, acct, nextAddrId>>

\* ----------------------------------------------------------- delete-user
\* lines 312-333, behind isAuthenticated and isAdmin
DeleteUser(admin, id) ==
    LET user == FindOne(users, "_id", id)
    IN /\ isAuthenticated(admin)
       /\ isAdmin(admin)
       /\ IF user = Null
          THEN /\ resp' = Respond("delete-user", [id |-> id], 404, "User not found")
               /\ UNCHANGED users
          ELSE /\ users' = users \ {user}
               /\ resp' = Respond("delete-user", [id |-> id], 200, "User deleted successfully")
       /\ UNCHANGED <<nextId, inflight, mails, uploads, sessions, now, acct, nextAddrId>>

\* ------------------------------------------------------ update-user-info
\* lines 150-179, behind isAuthenticated: the user is looked up by the
\* email of the body; the password is not touched, so the save does not hash
UpdateUserInfo(uid, email, password, phoneNumber, name) ==
    LET user == FindOne(users, "email", email)
        req == [uid |-> uid, email |-> email, password |-> password,
                phoneNumber |-> phoneNumber, name |-> name]
    IN /\ isAuthenticated(uid)
       /\ IF user = Null
          THEN /\ resp' = Respond("update-user-info", req, 404, "User not found")
               /\ UNCHANGED users
          ELSE IF ~comparePassword(password, user.password)
          THEN /\ resp' = Respond("update-user-info", req, 401, "Invalid credentials")
               /\ UNCHANGED users
          ELSE /\ users' = Save(users, user,
                       [user EXCEPT !.name = name, !.email = email, !.phoneNumber = phoneNumber])
               /\ resp' = Respond("update-user-info", req, 200, "user")
       /\ UNCHANGED <<nextId, inflight, mails, uploads, sessions, now, acct, nextAddrId>>

\* -------------------------------------------------- update-user-password
\* comparePassword called without await: a promise is truthy
isPasswordMatched_NoAwait(user, oldPassword) == TRUE

\* line 262: const isPasswordMatched = await user.comparePassword(req.body.oldPassword)
isPasswordMatched(user, oldPassword) == comparePassword(oldPassword, user.password)

\* lines 258-281, behind isAuthenticated
UpdateUserPassword(uid, oldPassword, newPassword, confirmPassword) ==
    LET user == FindOne(users, "_id", uid)
        req == [uid |-> uid, oldPassword |-> oldPassword, newPassword |-> newPassword,
                confirmPassword |-> confirmPassword]
    IN /\ isAuthenticated(uid)
       /\ IF ~isPasswordMatched(user, oldPassword)
          THEN /\ resp' = Respond("update-user-password", req, 400, "Old password is incorrect")
               /\ UNCHANGED users
          ELSE IF newPassword # confirmPassword
          THEN /\ resp' = Respond("update-user-password", req, 400, "Passwords do not match")
               /\ UNCHANGED users
          ELSE /\ users' = Save(users, user, PreSave([user EXCEPT !.password = Plain(newPassword)]))
               /\ resp' = Respond("update-user-password", req, 200, "Password updated successfully")
       /\ UNCHANGED <<nextId, inflight, mails, uploads, sessions, now, acct, nextAddrId>>

\* ------------------------------------------------- update-user-addresses
Min(S) == CHOOSE x \in S : \A y \in S : x <= y

\* positions of the addresses of a list that satisfy a test on one field
AddrMatches(addrs, field, v) == {k \in 1..Len(addrs) : addrs[k][field] = v}

\* the type of the body compared with another field of the address
sameTypeAddress_WrongField(addrs, body) == AddrMatches(addrs, "city", body.addressType) # {}

\* line 217: user.addresses.find(address => address.addressType === req.body.addressType)
sameTypeAddress(addrs, body) == AddrMatches(addrs, "addressType", body.addressType) # {}

\* line 223: user.addresses.find(address => address._id === req.body._id);
\* 0 is a body without _id
existsAddress(addrs, body) ==
    IF body._id = 0 \/ AddrMatches(addrs, "_id", body._id) = {} THEN 0
    ELSE Min(AddrMatches(addrs, "_id", body._id))

\* lines 224-228: Object.assign(existsAddress, req.body), or push(req.body)
Upsert(addrs, body, fresh) ==
    IF existsAddress(addrs, body) # 0
    THEN [addrs EXCEPT ![existsAddress(addrs, body)] = body]
    ELSE Append(addrs, IF body._id = 0 THEN [body EXCEPT !._id = fresh] ELSE body)

\* lines 213-237, behind isAuthenticated
UpdateUserAddresses(uid, body) ==
    LET user == FindOne(users, "_id", uid)
        req == [uid |-> uid, body |-> body]
    IN /\ isAuthenticated(uid)
       /\ IF sameTypeAddress(user.addresses, body)
          THEN /\ resp' = Respond("update-user-addresses", req, 400,
                               body.addressType \o " address already exists")
               /\ UNCHANGED <<users, nextAddrId>>
          ELSE /\ body._id = 0 => nextAddrId <= MaxAddrIds
               /\ users' = Save(users, user,
                       [user EXCEPT !.addresses = Upsert(@, body, nextAddrId)])
               /\ nextAddrId' = IF body._id = 0 THEN nextAddrId + 1 ELSE nextAddrId
               /\ resp' = Respond("update-user-addresses", req, 200, "user")
       /\ UNCHANGED <<nextId, inflight, mails, uploads, sessions, now, acct>>

\* --------------------------------------------------- delete-user-address
\* $pull: { addresses: { _id: addressId } }
Pull(addrs, addressId) == SelectSeq(addrs, LAMBDA a : a._id # addressId)

\* lines 240-255, behind isAuthenticated
DeleteUserAddress(uid, addressId) ==
    LET user == FindOne(users, "_id", uid)
    IN /\ isAuthenticated(uid)
       /\ users' = Save(users, user, [user EXCEPT !.addresses = Pull(@, addressId)])
       /\ resp' = Respond("delete-user-address", [uid |-> uid, id |-> addressId], 200, "user")
       /\ UNCHANGED <<nextId, inflight, mails, uploads, sessions, now, acct, nextAddrId>>

\* the clock advances
Tick ==
    /\ now < MaxTime
    /\ now' = now + 1
    /\ UNCHANGED <<users, nextId, inflight, mails, uploads, sessions, resp, acct, nextAddrId>>

\* --------------------------------------------------------- request bodies
\* create-user payloads: two for one email that differ in everything else,
\* one for another email
CreatePayloads ==
    {[name |-> "A", email |-> "a@x.com", password |-> "p", avatar |-> ""],
     [name |-> "B", email |-> "a@x.com", password |-> "q", avatar |-> "img"],
     [name |-> "A", email |-> "b@x.com", password |-> "p", avatar |-> "img"]}

\* one payload per email
SimplePayloads ==
    {[name |-> "A", email |-> e, password |-> "p", avatar |-> ""] : e \in Emails}

\* update-user-addresses bodies; _id 0 is a body without _id
AddressBodies ==
    [_id : 0..(nextAddrId - 1), addressType : AddressTypes, city : Cities]

\* the sessions of customers
Customers == sessions \ {AdminId}

CreateUser(P) ==
    \/ \E c \in P : CreateUserCheck(c.name, c.email, c.password, c.avatar)
    \/ \E r \in BagToSet(inflight) : CreateUserSave(r)
    \/ \E r \in BagToSet(inflight) : CreateUserMail(r)

Activation(T) ==
    \/ \E t \in T : ActivationCheck(t)
    \/ \E r \in BagToSet(inflight) : ActivationCreate(r)

\* no request is waiting on an await: the next one is served alone
Sequential == inflight = EmptyBag

\* the account lifecycle under concurrent requests
Next ==
    \/ CreateUser(SimplePayloads)
    \/ Activation(mails)
    \/ LoginUser("a@x.com", "p")
    \/ \E uid \in Customers : UpdateUserInfo(uid, "a@x.com", "p", "555", "B")
    \/ \E id \in 1..MaxIds : DeleteUser(AdminId, id)

Spec == Init /\ [][Next]_vars

\* the account lifecycle, one request at a time
NextLife ==
    \/ Sequential /\ \E c \in CreatePayloads : CreateUserCheck(c.name, c.email, c.password, c.avatar)
    \/ \E r \in BagToSet(inflight) : CreateUserSave(r)
    \/ \E r \in BagToSet(inflight) : CreateUserMail(r)
    \/ Sequential /\ \E t \in mails : ActivationCheck(t)
    \/ \E r \in BagToSet(inflight) : ActivationCreate(r)
    \/ Sequential /\ \E e \in Emails, p \in Passwords : LoginUser(e, p)
    \/ Sequential /\ \E id \in 1..MaxIds : DeleteUser(AdminId, id)

SpecLife == Init /\ [][NextLife]_vars

\* activation tokens over time, one request at a time
NextToken ==
    \/ Sequential /\ CreateUserCheck("A", "a@x.com", "p", "")
    \/ \E r \in BagToSet(inflight) : CreateUserSave(r)
    \/ \E r \in BagToSet(inflight) : CreateUserMail(r)
    \/ Sequential /\ \E t \in PostableTokens : ActivationCheck(t)
    \/ \E r \in BagToSet(inflight) : ActivationCreate(r)
    \/ Sequential /\ \E u \in users : u._id # AdminId /\ DeleteUser(AdminId, u._id)
    \/ Tick

SpecToken == Init /\ [][NextToken]_vars

\* credentials and profiles, one request at a time
NextAuth ==
    \/ Sequential /\ \E c \in SimplePayloads : CreateUserCheck(c.name, c.email, c.password, c.avatar)
    \/ \E r \in BagToSet(inflight) : CreateUserSave(r)
    \/ \E r \in BagToSet(inflight) : CreateUserMail(r)
    \/ Sequential /\ \E e \in Emails \cup {""}, p \in Passwords \cup {""} : LoginUser(e, p)
    \/ Sequential /\ \E uid \in Customers, e \in Emails, p \in Passwords, n \in Names :
           UpdateUserInfo(uid, e, p, "555", n)
    \/ Sequential /\ \E uid \in Customers, o \in Passwords, n \in Passwords, c \in Passwords :
           UpdateUserPassword(uid, o, n, c)

SpecAuth == Init /\ [][NextAuth]_vars

\* address lists, one request at a time
NextAddr ==
    \/ Sequential /\ CreateUserCheck("A", "a@x.com", "p", "")
    \/ \E r \in BagToSet(inflight) : CreateUserSave(r)
    \/ \E r \in BagToSet(inflight) : CreateUserMail(r)
    \/ Sequential /\ LoginUser("a@x.com", "p")
    \/ Sequential /\ \E uid \in Customers, b \in AddressBodies : UpdateUserAddresses(uid, b)
    \/ Sequential /\ \E uid \in Customers, a \in 1..MaxAddrIds : DeleteUserAddress(uid, a)

SpecAddr == Init /\ [][NextAddr]_vars
\* ------------------------------------------------------------------ claims
ById(coll, id) == FindOne(coll, "_id", id)

EmailRegistered(e) == \E u \in users : u.email = e

\* C1: create-user with an email that already belongs to a user answers 400
\* "User already exists" whatever the rest of the payload, and changes no
\* user, uploads no avatar, sends no mail and leaves no request waiting; a
\* create-user that is replayed right after its 201 gets the 400.
C1_DuplicateEmailRejected ==
    [][\A c \in CreatePayloads :
          /\ (/\ CreateUserCheck(c.name, c.email, c.password, c.avatar)
              /\ \E u \in users : u.email = c.email)
                => /\ resp'.seq # resp.seq
                   /\ resp'.op = "create-user"
                   /\ resp'.status = 400
                   /\ resp'.message = "User already exists"
                   /\ UNCHANGED <<users, uploads, mails, inflight>>
          /\ (/\ resp.op = "create-user"
              /\ resp.status = 201
              /\ resp.req = c
              /\ CreateUserCheck(c.name, c.email, c.password, c.avatar))
                => resp'.seq # resp.seq /\ resp'.status = 400]_vars

\* a create-user with an avatar and another name than the registered user's
\* was answered 400
C1_Witness ==
    /\ resp.op = "create-user"
    /\ resp.status = 400
    /\ resp.req.avatar # ""
    /\ \E u \in users : u.email = resp.req.email /\ u.name # resp.req.name /\ u.avatar = ""
    /\ uploads = 0

\* the registration of an email is open: its create-user returned 201 and no
\* activation has succeeded since
Open(e) == acct[e] \in {"pending", "failed"}

\* C2: after a create-user that returned 201, the first activation with the
\* unexpired token that was mailed succeeds (it is not refused, and ends in a
\* 201 with a session token and exactly one account for the email); every
\* later activation for the email is refused with 400 and changes no user.
C2_FirstActivationSucceeds ==
    [][/\ \A t \in mails :
            (ActivationCheck(t) /\ jwtVerify(t) = "ok")
               => /\ acct[t.user.email] = "pending" => resp' = resp
                  /\ acct[t.user.email] \in {"failed", "active"}
                        => resp'.status = 400 /\ UNCHANGED users
       /\ \A r \in BagToSet(inflight) :
            (ActivationCreate(r) /\ acct[r.user.email] = "pending")
               => /\ resp'.status = 201
                  /\ r.user._id \in sessions'
                  /\ Cardinality(Matches(users', "email", r.user.email)) = 1]_vars

\* C3: while the registration of an email is open no user record has that
\* email and a login with it gets 401; a record for an email appears only
\* with the 201 of an activation.
C3_PendingNotQueryable ==
    [][/\ \A e \in Emails : Open(e)' => Matches(users', "email", e) = {}
       /\ \A e \in Emails, p \in Passwords :
            (LoginUser(e, p) /\ Open(e)) => resp'.status = 401
       /\ \A e \in Emails :
            (Matches(users, "email", e) = {} /\ Matches(users', "email", e) # {})
               => resp'.op = "activation" /\ resp'.status = 201]_vars

\* C4: an activation whose token is past its expiry, or is not signed with the
\* secret, gets an error response; no user is created or changed, no session
\* token is issued and no creation is left waiting.
C4_BadTokenRejected ==
    [][\A t \in PostableTokens :
          (ActivationCheck(t) /\ (t.key # Secret \/ now > t.exp))
             => /\ resp'.seq # resp.seq
                /\ resp'.op = "activation"
                /\ resp'.status >= 400
                /\ UNCHANGED <<users, sessions, inflight>>]_vars

\* a mailed token was refused as expired while no user had its email
C4_Witness ==
    /\ resp.op = "activation"
    /\ resp.status >= 400
    /\ resp.req \in mails
    /\ now > resp.req.exp
    /\ ~EmailRegistered(resp.req.user.email)

\* C5: a login with email and password present gets the session token (200)
\* exactly when a user has that email and its stored password is the hash of
\* the entered one; every other one gets the one response 401 "Invalid
\* credentials"; no login changes a user.
C5_LoginGeneric ==
    [][\A e \in Emails, p \in Passwords :
          LoginUser(e, p)
             => /\ resp'.seq # resp.seq
                /\ resp'.status = 200
                      <=> \E u \in users : u.email = e /\ u.password = Hash(Plain(p))
                /\ resp'.status = 200 => \E u \in users : u.email = e /\ u._id \in sessions'
                /\ resp'.status # 200
                      => resp'.status = 401 /\ resp'.message = "Invalid credentials"
                         /\ sessions' = sessions
                /\ UNCHANGED users]_vars

\* a login with a registered email and a wrong password got the 401
C5_Witness ==
    /\ resp.op = "login-user"
    /\ resp.status = 401
    /\ \E u \in users : u.email = resp.req.email /\ u.password # Hash(Plain(resp.req.password))

\* no two addresses of one list have the same type
UniqueTypes(addrs) ==
    \A i, j \in 1..Len(addrs) : addrs[i].addressType = addrs[j].addressType => i = j

C7_UpdateInPlace ==
    [][\A uid \in Customers, b \in AddressBodies :
          (resp'.req = [uid |-> uid, body |-> b] /\ UpdateUserAddresses(uid, b))
             => LET old == ById(users, uid).addresses
                    new == ById(users', uid).addresses
                    at == {k \in 1..Len(old) : b._id # 0 /\ old[k]._id = b._id}
                IN /\ \A k \in at :
                        (\A j \in 1..Len(old) : j # k => old[j].addressType # b.addressType)
                           => /\ resp'.status = 200
                              /\ Len(new) = Len(old)
                              /\ new[k] = b
                              /\ \A j \in 1..Len(old) : j # k => new[j] = old[j]
                   /\ (at = {} /\ resp'.status = 200)
                        => /\ Len(new) = Len(old) + 1
                           /\ new[Len(new)].addressType = b.addressType
                           /\ new[Len(new)].city = b.city
                           /\ \A j \in 1..Len(old) : new[j] = old[j]]_vars

\* C8: update-user-password stores the hash of newPassword exactly when
\* oldPassword matches the stored password and newPassword is
\* confirmPassword, and otherwise answers 400 and changes no user; the login
\* that follows a change succeeds with the new password and fails with the
\* old one when they differ.
C8_PasswordChange ==
    [][/\ \A uid \in Customers, o \in Passwords, n \in Passwords, c \in Passwords :
            UpdateUserPassword(uid, o, n, c)
               => /\ resp'.seq # resp.seq
                  /\ IF ById(users, uid).password = Hash(Plain(o)) /\ n = c
                     THEN /\ resp'.status = 200
                          /\ ById(users', uid).password = Hash(Plain(n))
                          /\ \A v \in users : v._id # uid => v \in users'
                     ELSE resp'.status = 400 /\ UNCHANGED users
       /\ \A e \in Emails, p \in Passwords :
            (/\ resp.op = "update-user-password"
             /\ resp.status = 200
             /\ ById(users, resp.req.uid).email = e
             /\ LoginUser(e, p))
               => /\ p = resp.req.newPassword => resp'.status = 200
                  /\ (p = resp.req.oldPassword /\ p # resp.req.newPassword)
                        => resp'.status = 401]_vars

\* after a change from "p" to "q", the login with the old password got 401
C8_Witness ==
    /\ resp.op = "login-user"
    /\ resp.status = 401
    /\ resp.req.password = "p"
    /\ \E u \in users : u.email = resp.req.email /\ u.password = Hash(Plain("q"))

\* C9: an update-user-info of a customer leaves the record of every other
\* user as it was.
C9_OwnRecordOnly ==
    [][\A uid \in Customers, e \in Emails, p \in Passwords, n \in Names :
          UpdateUserInfo(uid, e, p, "555", n)
             => \A v \in users : v._id # uid => v \in users']_vars

====
